---- MODULE Spec2Model ----
(***************************************************************************)
(* Model of npoint_automator.py: run() logs into npoint.io through the     *)
(* browser, publishes each changed JSON file as a new bin, then merges the *)
(* published records into the registry bin and writes it back.             *)
(*                                                                         *)
(* Every call on the page, the file system or the read endpoint is a step  *)
(* whose outcome (success or exception) the environment chooses.           *)
(***************************************************************************)
EXTENDS Integers, Sequences, FiniteSets, TLC

\* ------------------------------------------------------------------ bounds
MaxFiles == 2      \* tokens in CHANGED_FILES
MaxRegistry == 2   \* entries in the list the read endpoint returns

\* ------------------------------------------------------------- data model
\* A file path, with the components os.path.basename / os.path.splitext give.
Paths == { [full |-> "lessons/p.json", base |-> "p.json", stem |-> "p"] }

\* CHANGED_FILES as a sequence of tokens: a path, or a run of extra whitespace.
Tokens == {[ws |-> TRUE]} \cup {[ws |-> FALSE, path |-> p] : p \in Paths}

SeqsUpTo(S, n) == UNION {[1..k -> S] : k \in 0..n}

\* str.split(): the whitespace-separated words, whitespace runs dropped.
RECURSIVE split(_)
split(s) ==
  IF s = <<>> THEN <<>>
  ELSE IF Head(s).ws THEN split(Tail(s))
       ELSE <<Head(s).path>> \o split(Tail(s))

\* JSON values. An object carries its fields as a function from key to value.
Obj(f) == [type |-> "object", val |-> f]
List(s) == [type |-> "list", items |-> s]
Str == [type |-> "string"]
NoData == [type |-> "none"]
IsDict(v) == v.type = "object"
IsList(v) == v.type = "list"

None == "<None>"
Unbound == "<unbound>"

\* dict.get(key, default)
Get(d, key, default) == IF key \in DOMAIN d.val THEN d.val[key] ELSE default

\* What open()+json.load() can yield for a file that exists.
BadJson == [type |-> "invalid"]
FileContents ==
  { BadJson, List(<<>>) } \cup
  { Obj([id |-> "a", title |-> "T", payload |-> "x"]),
    Obj([id |-> "a", payload |-> "x"]),
    Obj([title |-> "T", payload |-> "x"]),
    Obj([payload |-> "x"]) }

\* json.dumps(value, indent=2): the text of a value.
dumps(v) == [json |-> v]

\* URLs as page.url.split("/") sees them.
Host == <<"https:", "", "www.npoint.io">>
HomeUrl == Host \o <<"">>
DocsUrl == Host \o <<"docs">>
BinUrl(slug) == Host \o <<"docs", slug>>
BlankUrl == <<"about:blank">>
REGISTRY_BIN_ID == "reg"
SlugNames == <<"s1", "s2", "s3", "s4", "s5">>

\* "/docs/" in url: a segment "docs" with a slash before and after it.
ContainsDocsSlash(u) == \E i \in 2..(Len(u) - 1) : u[i] = "docs"

\* The predicate handed to page.wait_for_url after "+ New".
IsBinLocation(u) == ContainsDocsSlash(u) /\ Len(u) > 4

\* Variant: the identifier is taken one segment too early.
public_api_url_parent(u) == <<"https://api.npoint.io/", u[Len(u) - 1]>>

\* f"https://api.npoint.io/{page.url.split('/')[-1]}"
public_api_url(u) == <<"https://api.npoint.io/", u[Len(u)]>>

\* What the read endpoint can answer.
OldUrl == <<"https://api.npoint.io/", "old">>
RegistryItems ==
  { Obj([id |-> "a", title |-> "old", url |-> OldUrl, extra |-> "x"]),
    Obj([title |-> "old", url |-> OldUrl]),
    Str }
Responses ==
  { [kind |-> "raise"], [kind |-> "json", value |-> Obj([message |-> "x"])] } \cup
  { [kind |-> "json", value |-> List(s)] : s \in SeqsUpTo(RegistryItems, MaxRegistry) }

\* ------------------------------------------------------------------ state
VARIABLES
  pc,                   \* the statement run() is at
  outcome,              \* "running", "ok" (returned) or "error" (exception left run())
  files_env,            \* CHANGED_FILES
  files_to_process,     \* files_env.split()
  idx,                  \* position of the for loop in files_to_process
  file_data,            \* json.load(f) of the current file
  json_content_str,     \* json.dumps(file_data, indent=2)
  bin_title,
  bin_id_key,           \* Unbound until line 116 first assigns it
  new_registry_entries,
  current_registry,
  updated_registry,
  browser,              \* "none", "open", "closed"
  url,                  \* page.url, split at "/"
  pending,              \* "+ New" was clicked and the site has not redirected yet
  nextSlug,             \* the next identifier the site assigns
  editor,               \* text in the editor widget, as a sequence of inserted chunks
  selected,             \* the editor's whole text is selected
  phase,                \* last step of the publish workflow the current artifact completed
  attempted,            \* positions whose try block (line 110) was entered
  captured,             \* positions whose artifact reached Captured
  loginFailed,          \* a login step raised into the handler at line 93
  authenticated,        \* line 91 was reached
  fetched,              \* number of requests.get calls on the registry
  regNavs,              \* number of page.goto calls on the registry edit page
  written,              \* registry documents saved, oldest first
  failures,             \* <<position, kind>> of every file skipped or failed in the loop
  response,             \* what requests.get(...).json() did, once called
  reported,             \* "Registry Updated Successfully!" was printed
  origin,               \* page.url at the moment "+ New" was last clicked
  insert_path,          \* the calls the latest content insertion made, in order
  loginFailedAt         \* the login step that raised into the handler, if any

vars ==
  << pc, outcome, files_env, files_to_process, idx, file_data, json_content_str,
     bin_title, bin_id_key, new_registry_entries, current_registry,
     updated_registry, browser, url, pending, nextSlug, editor, selected, phase,
     attempted, captured, loginFailed, authenticated, fetched, regNavs, written,
     failures, response, reported, origin, insert_path, loginFailedAt >>

input == << files_env, files_to_process >>
locals == << file_data, json_content_str, bin_title, bin_id_key >>
registry == << current_registry, updated_registry >>
page == << url, pending, nextSlug, editor, selected >>
counters == << attempted, captured, loginFailed, authenticated, fetched, regNavs,
               written, response, reported >>
history == << counters, origin, insert_path, loginFailedAt >>

Prepopulated == [json |-> [type |-> "default"]]
Stored == [json |-> [type |-> "stored"]]

Init ==
  /\ pc = "start"
  /\ outcome = "running"
  /\ files_env \in SeqsUpTo(Tokens, MaxFiles)
  /\ files_to_process = <<>>
  /\ idx = 0
  /\ file_data = NoData
  /\ json_content_str = dumps(NoData)
  /\ bin_title = Unbound
  /\ bin_id_key = Unbound
  /\ new_registry_entries = <<>>
  /\ current_registry = <<>>
  /\ updated_registry = <<>>
  /\ browser = "none"
  /\ url = BlankUrl
  /\ pending = FALSE
  /\ nextSlug = 1
  /\ editor = <<>>
  /\ selected = FALSE
  /\ phase = "Idle"
  /\ attempted = {}
  /\ captured = {}
  /\ loginFailed = FALSE
  /\ authenticated = FALSE
  /\ fetched = 0
  /\ regNavs = 0
  /\ written = <<>>
  /\ failures = {}
  /\ response = [kind |-> "none"]
  /\ reported = FALSE
  /\ origin = BlankUrl
  /\ insert_path = <<>>
  /\ loginFailedAt = None

\* ------------------------------------------------------- leaving run()
\* Variant: Playwright started without the with block, nothing closes the browser.
with_exit_missing(b) == b

\* `with sync_playwright() as p`: leaving the block stops Playwright, which
\* closes the browser it launched.
with_exit(b) == IF b = "open" THEN "closed" ELSE b

\* Variant: the exception is caught and run() goes on to browser.close().
RaiseSwallowed(b) ==
  /\ pc' = "close"
  /\ outcome' = outcome
  /\ browser' = b

\* An exception no handler of run() catches, raised with the browser in state b.
RaiseFrom(b) ==
  /\ pc' = "done"
  /\ outcome' = "error"
  /\ browser' = with_exit(b)

Raise == RaiseFrom(browser)

\* Variant: the early return is missing.
no_files_never(env) == FALSE

\* Line 25: `if not files_env:`, true for the empty string, which is also the
\* default os.getenv gives at line 18 when CHANGED_FILES is not set.
no_files(env) == env = <<>>

\* Lines 18-31.
Start ==
  /\ pc = "start"
  /\ IF no_files(files_env)
       THEN /\ pc' = "done"
            /\ outcome' = "ok"
            /\ UNCHANGED files_to_process
       ELSE /\ pc' = "launch"
            /\ files_to_process' = split(files_env)
            /\ UNCHANGED outcome
  /\ UNCHANGED << files_env, idx, locals, new_registry_entries, registry, browser,
                  page, phase, history, failures >>

\* Lines 45-58: launch, new_context, grant_permissions, new_page.
Launch ==
  /\ pc = "launch"
  /\ \E r \in {"ok", "no_browser", "no_page"} :
       CASE r = "ok" ->
              /\ browser' = "open"
              /\ pc' = "goto_home"
              /\ UNCHANGED outcome
         [] r = "no_browser" -> RaiseFrom("none")
         [] r = "no_page" -> RaiseFrom("open")
  /\ UNCHANGED << input, idx, locals, new_registry_entries, registry, page, phase,
                  history, failures >>

\* ------------------------------------------------------------ Step 1: login
\* The statements of the try block at lines 62-91, in order.
LoginSteps ==
  << "goto_home", "networkidle", "wait_dropdown", "click_dropdown", "wait_login",
     "fill_email", "fill_password", "click_login", "wait_docs" >>

IndexOf(seq, x) == CHOOSE i \in 1..Len(seq) : seq[i] = x

\* Variant: the loop starts as soon as the home page was requested.
AfterLoginSkip(p) == "for"

\* The statement after login step p; after the last one, the for loop.
AfterLogin(p) ==
  LET i == IndexOf(LoginSteps, p)
  IN IF i = Len(LoginSteps) THEN "for" ELSE LoginSteps[i + 1]

\* Lines 67-70: the inner try/except around wait_for_load_state passes.
Absorbed(p) == p = "networkidle"

\* page.url after login step p succeeded.
UrlAfterLogin(p, u) ==
  CASE p = "goto_home" -> HomeUrl
    [] p = "wait_docs" -> DocsUrl
    [] OTHER -> u

LoginStep ==
  /\ pc \in {LoginSteps[i] : i \in 1..Len(LoginSteps)}
  /\ \E ok \in BOOLEAN :
       IF ok \/ Absorbed(pc)
         THEN /\ pc' = AfterLogin(pc)
              /\ url' = IF ok THEN UrlAfterLogin(pc, url) ELSE url
              /\ authenticated' = (pc = "wait_docs")
              /\ UNCHANGED << loginFailed, loginFailedAt >>
         ELSE /\ pc' = "login_except"
              /\ loginFailed' = TRUE
              /\ loginFailedAt' = pc
              /\ UNCHANGED << url, authenticated >>
  /\ UNCHANGED << outcome, input, idx, locals, new_registry_entries, registry,
                  browser, pending, nextSlug, editor, selected, phase, attempted,
                  captured, fetched, regNavs, written, failures, response,
                  reported, origin, insert_path >>

\* Variant: the handler logs and falls through to Step 2.
login_except_swallow == "continue"

\* Line 100: what the handler at lines 93-100 does once it has logged.
login_except_action == "raise"

\* Lines 93-100: print, screenshot, raise e (a failing screenshot raises too).
LoginExcept ==
  /\ pc = "login_except"
  /\ IF login_except_action = "raise"
       THEN Raise
       ELSE /\ pc' = "for"
            /\ UNCHANGED << outcome, browser >>
  /\ UNCHANGED << input, idx, locals, new_registry_entries, registry, page, phase,
                  history, failures >>

\* ------------------------------------------- Step 2: one bin per changed file
file_path == files_to_process[idx]

\* The statements of the try block after the bin was requested (lines 133-173).
PublishSteps ==
  << "wait_url", "wait_editor", "click_editor", "select_all", "backspace",
     "insert_text", "click_save", "capture" >>

\* Variant: the record is built right after the insertion, Save is never clicked.
AfterPublishSkipSave(p) ==
  IF p = "insert_text" THEN "capture"
  ELSE PublishSteps[IndexOf(PublishSteps, p) + 1]

\* The statement after step p of the try block.
AfterPublish(p) == PublishSteps[IndexOf(PublishSteps, p) + 1]

\* An exception inside the try block: control goes to the handler at line 174.
Fail(kind) ==
  /\ pc' = "except"
  /\ phase' = "Failed"
  /\ failures' = failures \cup {<<idx, kind>>}

\* Line 103: the next file of the list, or the end of the loop.
ForNext ==
  /\ pc = "for"
  /\ IF idx < Len(files_to_process)
       THEN /\ idx' = idx + 1
            /\ attempted' = attempted \cup {idx + 1}
            /\ phase' = "Idle"
            /\ pc' = "exists"
       ELSE /\ pc' = "step3"
            /\ UNCHANGED << idx, attempted, phase >>
  /\ UNCHANGED << outcome, input, locals, new_registry_entries, registry, browser,
                  page, captured, loginFailed, authenticated, fetched, regNavs,
                  written, failures, response, reported, origin, insert_path,
                  loginFailedAt >>

\* Lines 104-108: os.path.exists; a missing file is skipped with continue.
Exists ==
  /\ pc = "exists"
  /\ \E exists \in BOOLEAN :
       IF exists
         THEN /\ pc' = "read"
              /\ UNCHANGED failures
         ELSE /\ pc' = "for"
              /\ failures' = failures \cup {<<idx, "missing">>}
  /\ UNCHANGED << outcome, input, idx, locals, new_registry_entries, registry,
                  browser, page, phase, history >>

\* Lines 111-113: open, json.load, json.dumps.
Read ==
  /\ pc = "read"
  /\ \E c \in FileContents :
       IF c = BadJson
         THEN /\ Fail("read")
              /\ UNCHANGED << file_data, json_content_str >>
         ELSE /\ file_data' = c
              /\ json_content_str' = dumps(c)
              /\ pc' = "derive"
              /\ UNCHANGED failures
              /\ UNCHANGED phase
  /\ UNCHANGED << outcome, input, idx, bin_title, bin_id_key, new_registry_entries,
                  registry, browser, page, history >>

\* Variant: the title falls back to the file name only when the id is missing too.
derive_title_coupled(data, path) ==
  IF "title" \in DOMAIN data.val THEN data.val.title
  ELSE IF "id" \in DOMAIN data.val THEN data.val.id
  ELSE path.base

\* Line 115: file_data.get("title", os.path.basename(file_path)).
derive_title(data, path) == Get(data, "title", path.base)

\* Line 116: file_data.get("id", os.path.splitext(os.path.basename(file_path))[0]).
derive_id(data, path) == Get(data, "id", path.stem)

\* Lines 115-116: .get on the loaded value; a value that is no dict has no .get.
Derive ==
  /\ pc = "derive"
  /\ IF IsDict(file_data)
       THEN /\ bin_title' = derive_title(file_data, file_path)
            /\ bin_id_key' = derive_id(file_data, file_path)
            /\ pc' = "click_new"
            /\ UNCHANGED failures
            /\ UNCHANGED phase
       ELSE /\ Fail("shape")
            /\ UNCHANGED << bin_title, bin_id_key >>
  /\ UNCHANGED << outcome, input, idx, file_data, json_content_str,
                  new_registry_entries, registry, browser, page, history >>

\* Lines 124-127: click "+ New"; the bare except absorbs a failure.
ClickNew ==
  /\ pc = "click_new"
  /\ \E ok \in BOOLEAN :
       IF ok
         THEN /\ pending' = TRUE
              /\ origin' = url
              /\ pc' = "wait_url"
         ELSE /\ pc' = "goto_docs"
              /\ UNCHANGED << pending, origin >>
  /\ UNCHANGED << outcome, input, idx, locals, new_registry_entries, registry,
                  browser, url, nextSlug, editor, selected, phase, counters,
                  insert_path, loginFailedAt, failures >>

\* Line 128: the fallback navigation to the dashboard.
GotoDocs ==
  /\ pc = "goto_docs"
  /\ \E ok \in BOOLEAN :
       IF ok
         THEN /\ url' = DocsUrl
              /\ pending' = FALSE
              /\ editor' = <<>>
              /\ selected' = FALSE
              /\ pc' = "click_new2"
              /\ UNCHANGED failures
              /\ UNCHANGED phase
         ELSE /\ Fail("ui")
              /\ UNCHANGED << url, pending, editor, selected >>
  /\ UNCHANGED << outcome, input, idx, locals, new_registry_entries, registry,
                  browser, nextSlug, history >>

\* Line 129: the second click on "+ New", not guarded.
ClickNew2 ==
  /\ pc = "click_new2"
  /\ \E ok \in BOOLEAN :
       IF ok
         THEN /\ pending' = TRUE
              /\ origin' = url
              /\ pc' = "wait_url"
              /\ UNCHANGED failures
              /\ UNCHANGED phase
         ELSE /\ Fail("ui")
              /\ UNCHANGED << pending, origin >>
  /\ UNCHANGED << outcome, input, idx, locals, new_registry_entries, registry,
                  browser, url, nextSlug, editor, selected, counters, insert_path,
                  loginFailedAt >>

\* The site answers "+ New": it assigns an identifier and moves the page to the
\* new bin, some time after the click (lines 131-134 wait for this).
Redirect ==
  /\ pending
  /\ pc \in {PublishSteps[i] : i \in 1..Len(PublishSteps)}
  /\ url' = BinUrl(SlugNames[nextSlug])
  /\ nextSlug' = nextSlug + 1
  /\ pending' = FALSE
  /\ editor' = <<Prepopulated>>
  /\ selected' = FALSE
  /\ UNCHANGED << pc, outcome, input, idx, locals, new_registry_entries, registry,
                  browser, phase, history, failures >>

\* Lines 133-137: sleep, then wait_for_url with the predicate; it passes as soon
\* as the current location satisfies the predicate and times out otherwise.
WaitUrl ==
  /\ pc = "wait_url"
  /\ IF IsBinLocation(url)
       THEN /\ pc' = AfterPublish(pc)
            /\ UNCHANGED failures
            /\ phase' = "Navigating"
       ELSE Fail("ui")
  /\ UNCHANGED << outcome, input, idx, locals, new_registry_entries, registry,
                  browser, page, history >>

\* ----------------------------------------------------------- editor widget
\* Backspace deletes the selection, or else the text before the cursor.
press_backspace(text, sel) ==
  IF sel \/ text = <<>> THEN <<>> ELSE SubSeq(text, 1, Len(text) - 1)

\* keyboard.insert_text replaces the selection, or else adds at the cursor.
insert_text(text, sel, chunk) ==
  IF sel THEN <<chunk>> ELSE Append(text, chunk)

\* Lines 144-147: wait for #brace-editor, then click it.
WaitEditor ==
  /\ pc = "wait_editor"
  /\ \E ok \in BOOLEAN :
       IF ok
         THEN /\ pc' = AfterPublish(pc)
              /\ UNCHANGED failures
              /\ UNCHANGED phase
         ELSE Fail("ui")
  /\ UNCHANGED << outcome, input, idx, locals, new_registry_entries, registry,
                  browser, page, history >>

ClickEditor ==
  /\ pc = "click_editor"
  /\ \E ok \in BOOLEAN :
       IF ok
         THEN /\ pc' = AfterPublish(pc)
              /\ UNCHANGED failures
              /\ phase' = "EditorReady"
              /\ selected' = FALSE
         ELSE /\ Fail("ui")
              /\ UNCHANGED selected
  /\ UNCHANGED << outcome, input, idx, locals, new_registry_entries, registry,
                  browser, url, pending, nextSlug, editor, history >>

\* Line 150.
SelectAll ==
  /\ pc = "select_all"
  /\ \E ok \in BOOLEAN :
       IF ok
         THEN /\ pc' = AfterPublish(pc)
              /\ UNCHANGED failures
              /\ selected' = TRUE
              /\ UNCHANGED phase
         ELSE /\ Fail("ui")
              /\ UNCHANGED selected
  /\ UNCHANGED << outcome, input, idx, locals, new_registry_entries, registry,
                  browser, url, pending, nextSlug, editor, history >>

\* Line 151.
Backspace ==
  /\ pc = "backspace"
  /\ \E ok \in BOOLEAN :
       IF ok
         THEN /\ pc' = AfterPublish(pc)
              /\ UNCHANGED failures
              /\ editor' = press_backspace(editor, selected)
              /\ selected' = FALSE
              /\ phase' = "ContentCleared"
         ELSE /\ Fail("ui")
              /\ UNCHANGED << editor, selected >>
  /\ UNCHANGED << outcome, input, idx, locals, new_registry_entries, registry,
                  browser, url, pending, nextSlug, history >>

\* Lines 153 and 206: the only insertion call is page.keyboard.insert_text;
\* nothing is written to the clipboard and no paste is issued before it.
insertion_calls == <<"direct">>

\* Line 153.
InsertText ==
  /\ pc = "insert_text"
  /\ insert_path' = insertion_calls
  /\ \E ok \in BOOLEAN :
       IF ok
         THEN /\ pc' = AfterPublish(pc)
              /\ UNCHANGED failures
              /\ editor' = insert_text(editor, selected, json_content_str)
              /\ selected' = FALSE
              /\ phase' = "ContentInserted"
         ELSE /\ Fail("ui")
              /\ UNCHANGED << editor, selected >>
  /\ UNCHANGED << outcome, input, idx, locals, new_registry_entries, registry,
                  browser, url, pending, nextSlug, counters, origin, loginFailedAt >>

\* Line 157.
ClickSave ==
  /\ pc = "click_save"
  /\ \E ok \in BOOLEAN :
       IF ok
         THEN /\ pc' = AfterPublish(pc)
              /\ UNCHANGED failures
              /\ phase' = "Saved"
         ELSE Fail("ui")
  /\ UNCHANGED << outcome, input, idx, locals, new_registry_entries, registry,
                  browser, page, history >>

\* Lines 161-173: sleep, read page.url, build and append the record.
Capture ==
  /\ pc = "capture"
  /\ new_registry_entries' =
       Append(new_registry_entries,
              Obj([id |-> bin_id_key, title |-> bin_title, url |-> public_api_url(url)]))
  /\ phase' = "Captured"
  /\ captured' = captured \cup {idx}
  /\ pc' = "for"
  /\ UNCHANGED << outcome, input, idx, locals, registry, browser, page, attempted,
                  loginFailed, authenticated, fetched, regNavs, written, failures, response,
                  reported, origin, insert_path, loginFailedAt >>

\* Lines 174-176: print, then page.screenshot(path=f"debug_error_{bin_id_key}.png").
\* Reading bin_id_key before line 116 ever assigned it raises UnboundLocalError;
\* the screenshot call itself can raise; nothing catches either.
Except ==
  /\ pc = "except"
  /\ IF bin_id_key = Unbound
       THEN Raise
       ELSE \E ok \in BOOLEAN :
              IF ok
                THEN /\ pc' = "for"
                     /\ UNCHANGED << outcome, browser >>
                ELSE Raise
  /\ UNCHANGED << input, idx, locals, new_registry_entries, registry, page, phase,
                  history, failures >>

\* ------------------------------------------------- Step 3: update registry
\* Variant: Step 3 runs whether or not anything was published.
should_update_always(entries) == TRUE

\* Line 179: `if new_registry_entries:`.
should_update(entries) == entries # <<>>

\* Variant: no isinstance check, a non-list answer is kept as the one old entry.
fetch_registry_unchecked(r) ==
  IF r.kind = "raise" THEN <<>>
  ELSE IF IsList(r.value) THEN r.value.items
  ELSE <<r.value>>

\* Lines 184-189: the fetched value, or [] when the fetch raised or gave no list.
fetch_registry(r) ==
  IF r.kind = "raise" THEN <<>>
  ELSE IF IsList(r.value) THEN r.value.items
  ELSE <<>>

\* Variant: only the first record's id is collected.
new_ids_first_only(entries) == {entries[1].val.id}

\* Line 192.
new_ids(entries) == {entries[i].val.id : i \in 1..Len(entries)}

\* Line 193: item.get('id') is called on every fetched item.
merge_raises(current) == \E i \in 1..Len(current) : ~IsDict(current[i])

\* Variant: the filter is forgotten, the new records are only appended.
merge_append_only(current, entries) == current \o entries

\* Variant: the new records are put in front of the kept entries.
merge_prepend(current, entries) ==
  LET keep(item) == Get(item, "id", None) \notin new_ids(entries)
  IN entries \o SelectSeq(current, keep)

\* Lines 193-194.
merge(current, entries) ==
  LET keep(item) == Get(item, "id", None) \notin new_ids(entries)
  IN SelectSeq(current, keep) \o entries

Step3 ==
  /\ pc = "step3"
  /\ pc' = IF should_update(new_registry_entries) THEN "fetch" ELSE "close"
  /\ UNCHANGED << outcome, input, idx, locals, new_registry_entries, registry,
                  browser, page, phase, history, failures >>

\* The read endpoint accepts the request and never answers.
NoAnswer == [kind |-> "silent"]

\* Line 185: requests.get is called without a timeout argument, so a request
\* the endpoint never answers never returns and never raises.
get_returns(r) == r # NoAnswer

\* Lines 183-189.
Fetch ==
  /\ pc = "fetch"
  /\ \E r \in Responses \cup {NoAnswer} :
       /\ response' = r
       /\ IF get_returns(r)
            THEN /\ current_registry' = fetch_registry(r)
                 /\ pc' = "merge"
            ELSE /\ pc' = "blocked"
                 /\ UNCHANGED current_registry
  /\ fetched' = fetched + 1
  /\ UNCHANGED << outcome, input, idx, locals, new_registry_entries,
                  updated_registry, browser, page, phase, attempted, captured,
                  loginFailed, authenticated, regNavs, written, failures, reported,
                  origin, insert_path, loginFailedAt >>

\* Lines 192-194; an AttributeError here is outside every try block.
Merge ==
  /\ pc = "merge"
  /\ IF merge_raises(current_registry)
       THEN /\ Raise
            /\ UNCHANGED updated_registry
       ELSE /\ updated_registry' = merge(current_registry, new_registry_entries)
            /\ pc' = "goto_registry"
            /\ UNCHANGED << outcome, browser >>
  /\ UNCHANGED << input, idx, locals, new_registry_entries, current_registry, page,
                  phase, history, failures >>

\* Line 198: page.goto on the registry's edit page.
GotoRegistry ==
  /\ pc = "goto_registry"
  /\ regNavs' = regNavs + 1
  /\ \E ok \in BOOLEAN :
       IF ok
         THEN /\ url' = BinUrl(REGISTRY_BIN_ID)
              /\ pending' = FALSE
              /\ editor' = <<Stored>>
              /\ selected' = FALSE
              /\ pc' = "r_click_editor"
              /\ UNCHANGED << outcome, browser >>
         ELSE /\ Raise
              /\ UNCHANGED << url, pending, editor, selected >>
  /\ UNCHANGED << input, idx, locals, new_registry_entries, registry, nextSlug,
                  phase, attempted, captured, loginFailed, authenticated, fetched,
                  written, failures, response, reported, origin, insert_path,
                  loginFailedAt >>

\* The statements at lines 202-209, in order.
RegistrySteps ==
  << "r_click_editor", "r_select_all", "r_backspace", "r_insert_text",
     "r_click_save" >>

AfterRegistry(p) ==
  LET i == IndexOf(RegistrySteps, p)
  IN IF i = Len(RegistrySteps) THEN "close" ELSE RegistrySteps[i + 1]

\* Lines 201-206: the editor after step p succeeded.
EditorAfter(p, text, sel, chunk) ==
  CASE p = "r_backspace" -> press_backspace(text, sel)
    [] p = "r_insert_text" -> insert_text(text, sel, chunk)
    [] OTHER -> text

SelectedAfter(p) == p = "r_select_all"

\* Lines 202-211: any failure here leaves run() as an exception.
RegistryStep ==
  /\ pc \in {RegistrySteps[i] : i \in 1..Len(RegistrySteps)}
  /\ insert_path' = IF pc = "r_insert_text" THEN insertion_calls ELSE insert_path
  /\ \E ok \in BOOLEAN :
       IF ok
         THEN /\ pc' = AfterRegistry(pc)
              /\ editor' = EditorAfter(pc, editor, selected, dumps(List(updated_registry)))
              /\ selected' = SelectedAfter(pc)
              /\ written' = IF pc = "r_click_save" THEN Append(written, editor) ELSE written
              /\ reported' = (pc = "r_click_save")
              /\ UNCHANGED << outcome, browser >>
         ELSE /\ Raise
              /\ UNCHANGED << editor, selected, written, failures, response,
                  reported >>
  /\ UNCHANGED << input, idx, locals, new_registry_entries, registry, url, pending,
                  nextSlug, phase, attempted, captured, loginFailed, authenticated,
                  fetched, regNavs, failures, response, origin, loginFailedAt >>

\* Line 215: browser.close(), then the end of the with block and of run().
Close ==
  /\ pc = "close"
  /\ pc' = "done"
  /\ browser' = "closed"
  /\ outcome' = "ok"
  /\ UNCHANGED << input, idx, locals, new_registry_entries, registry, page, phase,
                  history, failures >>

Next ==
  \/ Start
  \/ Launch
  \/ LoginStep
  \/ LoginExcept
  \/ ForNext
  \/ Exists
  \/ Read
  \/ Derive
  \/ ClickNew
  \/ GotoDocs
  \/ ClickNew2
  \/ Redirect
  \/ WaitUrl
  \/ WaitEditor
  \/ ClickEditor
  \/ SelectAll
  \/ Backspace
  \/ InsertText
  \/ ClickSave
  \/ Capture
  \/ Except
  \/ Step3
  \/ Fetch
  \/ Merge
  \/ GotoRegistry
  \/ RegistryStep
  \/ Close

Spec == Init /\ [][Next]_vars

TypeOK ==
  /\ outcome \in {"running", "ok", "error"}
  /\ browser \in {"none", "open", "closed"}
  /\ idx \in 0..Len(files_to_process)
  /\ nextSlug \in 1..(Len(files_to_process) + 1)

\* ================================================================ properties
Positions == 1..Len(files_to_process)
FailedAs(kinds) == {f[1] : f \in {g \in failures : g[2] \in kinds}}
Entries(seq, id) ==
  {i \in 1..Len(seq) : IsDict(seq[i]) /\ "id" \in DOMAIN seq[i].val /\ seq[i].val.id = id}
UniqueIds(seq) ==
  \A i, j \in 1..Len(seq) :
    (i # j /\ IsDict(seq[i]) /\ "id" \in DOMAIN seq[i].val) => j \notin Entries(seq, seq[i].val.id)
NotAList(r) == r.kind = "raise" \/ (r.kind = "json" /\ ~IsList(r.value))

RunIds == {new_registry_entries[i].val.id : i \in 1..Len(new_registry_entries)}
Kept == Len(updated_registry) - Len(new_registry_entries)

\* Every fetched entry whose id no record of the run carries is in the merged
\* registry, unchanged.
UntouchedKept ==
  \A i \in 1..Len(current_registry) :
    Get(current_registry[i], "id", None) \notin RunIds =>
      \E j \in 1..Len(updated_registry) : updated_registry[j] = current_registry[i]

\* C1 as claimed: upsert idempotence for every list of new records. Once the
\* merge has run, every new record whose id occurs in the fetched registry has
\* exactly one entry in the merged registry, with the new record's title and
\* url, and every fetched entry whose id is not a new id is still there unchanged.
C1_AsClaimed ==
  pc = "goto_registry" =>
    /\ \A k \in 1..Len(new_registry_entries) :
         LET rec == new_registry_entries[k].val
         IN Entries(current_registry, rec.id) # {} =>
              /\ Cardinality(Entries(updated_registry, rec.id)) = 1
              /\ \A j \in Entries(updated_registry, rec.id) :
                   /\ updated_registry[j].val.title = rec.title
                   /\ updated_registry[j].val.url = rec.url
    /\ UntouchedKept

\* C1 as amended: for a new record whose id occurs in the fetched registry, the
\* merged registry's entries with that id are the run's records with that id and
\* nothing else, one entry per such record: exactly one, with the new title and
\* url, when no other record of the run carries the id. Every fetched entry whose
\* id is not a new id is still there unchanged.
C1_UpsertIdempotence ==
  pc = "goto_registry" =>
    /\ \A k \in 1..Len(new_registry_entries) :
         LET rec == new_registry_entries[k].val
         IN Entries(current_registry, rec.id) # {} =>
              /\ Cardinality(Entries(updated_registry, rec.id))
                   = Cardinality(Entries(new_registry_entries, rec.id))
              /\ \A j \in Entries(updated_registry, rec.id) :
                   \E m \in Entries(new_registry_entries, rec.id) :
                     updated_registry[j] = new_registry_entries[m]
              /\ Entries(new_registry_entries, rec.id) = {k} =>
                   \A j \in Entries(updated_registry, rec.id) :
                     /\ updated_registry[j].val.title = rec.title
                     /\ updated_registry[j].val.url = rec.url
    /\ UntouchedKept

\* C1 case: one new record replaces two fetched entries that carry its id.
C1_Witness ==
  /\ pc = "goto_registry"
  /\ Len(new_registry_entries) = 1
  /\ Cardinality(Entries(current_registry, new_registry_entries[1].val.id)) = 2
  /\ Cardinality(Entries(updated_registry, new_registry_entries[1].val.id)) = 1

\* C2: batch isolation. In a run that logged in and in which a UI step failed
\* for some artifact, every file of the list is attempted, and if nothing was
\* published the run still ends normally with the browser closed.
C2_BatchIsolation ==
  (pc = "done" /\ authenticated /\ FailedAs({"ui"}) # {}) =>
    /\ attempted = Positions
    /\ new_registry_entries = <<>> => (outcome = "ok" /\ browser = "closed")

\* C3: a file that is missing or is not parseable JSON is skipped: it yields no
\* record, every file of the list is still attempted, and the run does not end
\* with an exception on its account (only a registry step may still raise).
C3_ReadErrorIsSkip ==
  (pc = "done" /\ FailedAs({"missing", "read"}) # {}) =>
    /\ FailedAs({"missing", "read"}) \cap captured = {}
    /\ attempted = Positions
    /\ outcome = "error" => fetched > 0

\* C4 as claimed: uniqueness after merge. A registry that was written back has
\* no two entries with the same id.
C4_AsClaimed == reported => UniqueIds(updated_registry)

\* C4 as amended: in a registry that was written back, no fetched entry shares an
\* id with a record of the run; two entries with the same id are either two
\* fetched entries whose id the run did not touch, or two records of this run.
\* So the written registry has unique ids whenever the untouched fetched entries
\* and the run's records each have.
C4_UniqueAfterMerge ==
  reported =>
    /\ \A i \in 1..Kept :
         Get(updated_registry[i], "id", None) \notin RunIds
    /\ \A i, j \in 1..Len(updated_registry) :
         (i < j /\ j \in Entries(updated_registry, Get(updated_registry[i], "id", None))) =>
           (j <= Kept \/ i > Kept)
    /\ (UniqueIds(SubSeq(updated_registry, 1, Kept)) /\ UniqueIds(new_registry_entries))
         => UniqueIds(updated_registry)

\* C4 case: a written registry with unique ids although the fetched one repeated
\* an id that the run republished.
C4_Witness ==
  /\ reported
  /\ Len(new_registry_entries) = 2
  /\ \E id \in RunIds : Cardinality(Entries(current_registry, id)) = 2
  /\ UniqueIds(updated_registry)

\* C5: fail-open read. When the fetch raised or returned something that is no
\* list, the merge does not raise, the merged registry is exactly the run's
\* records in publication order, and that is the document a save writes.
C5_FailOpenRead ==
  (NotAList(response) /\ pc # "merge") =>
    /\ updated_registry = new_registry_entries
    /\ (pc = "done" /\ outcome = "error") => regNavs > 0
    /\ reported => written = << <<dumps(List(new_registry_entries))>> >>

\* C5 case: the endpoint answered with a non-list and the registry was saved.
C5_Witness ==
  /\ reported
  /\ response.kind = "json"
  /\ ~IsList(response.value)
  /\ Len(new_registry_entries) = 2

\* C6: whatever the read endpoint returned, the merge completes and the run goes
\* on to the registry edit page: no run ends between the fetch and that navigation.
C6_ShapeNeverFatal == (pc = "done" /\ fetched > 0) => regNavs > 0

\* The success path of the per-artifact state machine.
PhaseOrder ==
  << "Idle", "Navigating", "EditorReady", "ContentCleared", "ContentInserted",
     "Saved", "Captured" >>
\* One step of run() moves the phase at most one state forward, or to Failed, or
\* back to Idle for the next file, and appends a record exactly on Saved -> Captured.
C7_PhaseStep ==
  /\ phase' # phase =>
       \/ phase' = "Failed"
       \/ phase' = "Idle" /\ phase \in {"Captured", "Failed"}
       \/ \E i \in 1..(Len(PhaseOrder) - 1) :
            phase = PhaseOrder[i] /\ phase' = PhaseOrder[i + 1]
  /\ new_registry_entries' # new_registry_entries =>
       /\ phase = "Saved" /\ phase' = "Captured"
       /\ Len(new_registry_entries') = Len(new_registry_entries) + 1
       /\ SubSeq(new_registry_entries', 1, Len(new_registry_entries)) = new_registry_entries
       /\ captured' = captured \cup {idx}
       /\ idx \notin captured
  /\ captured' # captured => new_registry_entries' # new_registry_entries
\* C7: a record is appended only by an artifact that completed the workflow
\* steps in order. The phase only moves one step forward along Idle, Navigating,
\* EditorReady, ContentCleared, ContentInserted, Saved, Captured, or to Failed, or
\* back to Idle for the next file; the record list grows by one exactly on
\* Saved -> Captured; no failed or skipped position has a record; and there are
\* never more records than captured artifacts.
C7_RecordOnlyWhenCaptured ==
  /\ [](/\ Len(new_registry_entries) <= Cardinality(captured)
        /\ FailedAs({"missing", "read", "shape", "ui"}) \cap captured = {})
  /\ [][C7_PhaseStep]_vars

\* C7 case: the first artifact failed at a UI step, the second was captured.
C7_Witness ==
  /\ pc = "done"
  /\ captured = {2}
  /\ FailedAs({"ui"}) = {1}

\* C8: no-op guarantee. While no artifact has been published, the registry is
\* not fetched, its edit page is not opened and nothing is saved to it.
C8_NoOpGuarantee ==
  captured = {} => (fetched = 0 /\ regNavs = 0 /\ written = <<>> /\ ~reported)

\* C8 case: a run that ended normally with every file missing or failed.
C8_Witness ==
  /\ pc = "done"
  /\ outcome = "ok"
  /\ captured = {}
  /\ FailedAs({"ui"}) # {}
  /\ FailedAs({"missing"}) # {}

\* C9: authentication failure is fatal. Once a login step has raised into the
\* handler, run() can only end, and it ends with an exception; no file is
\* attempted, no record exists, the registry is neither fetched nor written.
C9_AuthFailureFatal ==
  loginFailed =>
    /\ pc \in {"login_except", "done"}
    /\ pc = "done" => outcome = "error"
    /\ ~authenticated
    /\ attempted = {} /\ new_registry_entries = <<>>
    /\ fetched = 0 /\ regNavs = 0 /\ written = <<>>

\* C9 case: a login step after the home page loaded raised and run() ended.
C9_Witness == loginFailed /\ pc = "done" /\ url = HomeUrl

\* C10: teardown. Whenever run() has ended, by returning or by an exception,
\* a browser it launched is closed.
C10_SessionTornDown == pc = "done" => browser # "open"

\* C10 case: run() ended by an exception during the registry write-back.
C10_Witness ==
  /\ pc = "done"
  /\ outcome = "error"
  /\ browser = "closed"
  /\ written = <<>>
  /\ regNavs > 0


\* The record of the artifact that was just captured.
JustCaptured == pc = "for" /\ phase = "Captured"
LastRecord == new_registry_entries[Len(new_registry_entries)].val

\* C11: the record of a published artifact has the content's title when the
\* content has a title field and the file's base name otherwise, and the
\* content's id when it has an id field and the file name stem otherwise; each
\* fallback looks at its own field only.
C11_TitleAndIdFallbacks ==
  JustCaptured =>
    /\ LastRecord.title =
         IF "title" \in DOMAIN file_data.val THEN file_data.val.title ELSE file_path.base
    /\ LastRecord.id =
         IF "id" \in DOMAIN file_data.val THEN file_data.val.id ELSE file_path.stem

\* C11 case: a published artifact whose content has an id but no title.
C11_Witness ==
  /\ JustCaptured
  /\ "id" \in DOMAIN file_data.val
  /\ "title" \notin DOMAIN file_data.val
  /\ LastRecord.title = "p.json"
  /\ LastRecord.id = "a"


\* Positions of the fetched entries whose id no record of the run carries.
Survivors ==
  {i \in 1..Len(current_registry) : Get(current_registry[i], "id", None) \notin RunIds}

\* C12: the merged registry is the fetched registry without the entries whose
\* id is a new id, the others verbatim (extra fields included) and in their
\* original order, followed by the run's records in publication order; and this
\* is the document a save writes.
C12_MergedRegistryShape ==
  (regNavs > 0 \/ pc = "goto_registry") =>
    /\ Len(updated_registry) = Cardinality(Survivors) + Len(new_registry_entries)
    /\ \A i \in Survivors :
         updated_registry[Cardinality({j \in Survivors : j <= i})] = current_registry[i]
    /\ \A k \in 1..Len(new_registry_entries) :
         updated_registry[Cardinality(Survivors) + k] = new_registry_entries[k]
    /\ reported => written = << <<dumps(List(updated_registry))>> >>

\* C12 case: two fetched entries survive, one of them with an extra field, and
\* the run's record follows them in the document that was saved.
C12_Witness ==
  /\ reported
  /\ Cardinality(Survivors) = 2
  /\ "extra" \in DOMAIN current_registry[1].val
  /\ "id" \notin DOMAIN current_registry[2].val
  /\ Len(updated_registry) = 3
  /\ updated_registry[1] = current_registry[1]


\* C13: the public URL of a record is the public-read host prefix followed by
\* the last path segment of the location the page is on when the record is built.
C13_PublicUrlFromLocation ==
  JustCaptured =>
    /\ LastRecord.url[1] = "https://api.npoint.io/"
    /\ LastRecord.url[2] = url[Len(url)]
    /\ Len(LastRecord.url) = 2

\* C13 case: a record was built on the bin page /docs/s1.
C13_Witness ==
  /\ JustCaptured
  /\ url = BinUrl("s1")
  /\ LastRecord.url = <<"https://api.npoint.io/", "s1">>


\* C14: with an absent or empty file list the run ends normally and nothing
\* else happens: no browser, no login step, no file read, no registry fetch,
\* no registry write.
C14_EmptyInputNoOp ==
  files_env = <<>> =>
    /\ pc \in {"start", "done"}
    /\ pc = "done" => outcome = "ok"
    /\ browser = "none"
    /\ url = BlankUrl
    /\ ~loginFailed /\ ~authenticated
    /\ attempted = {} /\ file_data = NoData
    /\ fetched = 0 /\ regNavs = 0 /\ written = <<>> /\ ~reported

\* C14 case: a run on the empty file list has returned.
C14_Witness == files_env = <<>> /\ pc = "done" /\ outcome = "ok"


\* The current artifact's editor has been focused and its record is not built yet.
EditorTouched == phase \in {"EditorReady", "ContentCleared", "ContentInserted", "Saved"}

\* The location designates an identifier other than the one of the location
\* the page was on when "+ New" was clicked.
FreshLocation ==
  /\ IsBinLocation(url)
  /\ url[Len(url)] # ""
  /\ url[Len(url)] # origin[Len(origin)]

DistinctUrls ==
  \A i, j \in 1..Len(new_registry_entries) :
    i # j => new_registry_entries[i].val.url # new_registry_entries[j].val.url

\* C15: the editor is touched only on a location whose identifier is new since
\* creation was triggered, and no two records of a run carry the same public URL.
C15_EditorOnlyOnNewBin == (EditorTouched => FreshLocation) /\ DistinctUrls


\* C17: every content insertion, of an artifact or of the registry, tries the
\* clipboard write and paste first, and makes the direct insertion only as the
\* second call, after the first one raised.
C17_ClipboardTierFirst ==
  insert_path # <<>> =>
    /\ Head(insert_path) = "clipboard"
    /\ Len(insert_path) = 2 => insert_path[2] = "direct"
    /\ Len(insert_path) <= 2


\* C18: a home page without the login-trigger element does not make
\* authentication fail: the wait for that element never raises into the login
\* handler, and so never ends the run.
C18_MissingTriggerTolerated ==
  /\ loginFailed => loginFailedAt # "wait_dropdown"
  /\ (pc = "done" /\ outcome = "error") => loginFailedAt # "wait_dropdown"


\* C19: every wait of run() is bounded, so a run that has not ended can always
\* take a further step: it is never stuck at a statement that neither returns
\* nor raises.
C19_NoWaitBlocksForever == pc = "done" \/ ENABLED Next


\* Positions whose artifact was captured, failed, or was skipped as unreadable.
Finished == captured \cup FailedAs({"missing", "read", "shape", "ui"})
RegistryPcs ==
  {"fetch", "merge", "goto_registry", "blocked"} \cup
  {RegistrySteps[i] : i \in 1..Len(RegistrySteps)}

C16_OrderInv ==
  /\ attempted = 1..idx
  /\ attempted # {} => authenticated
  /\ authenticated =>
       pc \notin {LoginSteps[i] : i \in 1..Len(LoginSteps)} \cup {"login_except", "launch"}
  /\ fetched <= 1 /\ regNavs <= 1 /\ Len(written) <= 1
  /\ (pc \in RegistryPcs \/ fetched > 0) => (attempted = Positions /\ Finished = Positions)

C16_OrderStep ==
  /\ authenticated' # authenticated => (authenticated' /\ idx = 0 /\ attempted = {})
  /\ idx' # idx =>
       /\ idx' = idx + 1
       /\ authenticated
       /\ idx = 0 \/ idx \in Finished
       /\ fetched = 0
  /\ fetched' # fetched => (fetched = 0 /\ Finished = Positions)
  /\ updated_registry' # updated_registry => (fetched = 1 /\ regNavs = 0)
  /\ regNavs' # regNavs => (regNavs = 0 /\ fetched = 1)
  /\ written' # written => (written = <<>> /\ regNavs = 1)

\* C16: ordering of the run. Authentication is reached once, before any artifact
\* is attempted, and the login steps are never run again; the files are attempted
\* one at a time in list order, each one captured, failed or skipped before the
\* next begins; the registry is fetched, merged, opened and saved at most once,
\* and only after every file of the list has been attempted and finished.
C16_RunOrdering == [](C16_OrderInv) /\ [][C16_OrderStep]_vars

\* C16 case: two artifacts were published one after the other and the registry
\* was then fetched and written back.
C16_Witness ==
  /\ reported
  /\ attempted = {1, 2}
  /\ captured = {1, 2}
  /\ fetched = 1 /\ regNavs = 1 /\ Len(written) = 1


\* The write-back was started (line 198 was called) and did not reach line 211.
WriteBackCut == regNavs > 0 /\ ~reported

\* C20: a failure while writing the registry back is fatal. A run that ended
\* after starting the write-back without completing it ended with an exception,
\* the write-back was not started a second time and nothing was saved; and a run
\* that ended with an exception after starting the write-back never reported
\* the registry as updated.
C20_WriteBackFailureFatal ==
  /\ WriteBackCut => pc # "close"
  /\ (pc = "done" /\ WriteBackCut) =>
       (outcome = "error" /\ regNavs = 1 /\ written = <<>> /\ browser # "open")
  /\ (pc = "done" /\ regNavs > 0 /\ outcome = "error") => ~reported

\* C20 case: the merged registry was typed into the editor, the click on Save
\* raised, and the run ended with that exception.
C20_Witness ==
  /\ pc = "done" /\ outcome = "error"
  /\ regNavs = 1 /\ ~reported
  /\ editor = <<dumps(List(updated_registry))>>
  /\ written = <<>>

====
